---- MODULE Spec2Model ----
(***************************************************************************)
(* NestFest competition platform: registration, team formation, submission *)
(* finalisation, voting sessions and judge assignment, as implemented in   *)
(* application_models.py, and the anomaly scoring of votes in              *)
(* nestfest_ml_pipeline.py.                                                *)
(*                                                                         *)
(* The entity classes keep no collection of their own: a Registration,     *)
(* TeamInvitation or JudgeAssignment exists once its constructor has been  *)
(* called, so the model records every constructed object in a sequence.    *)
(* Each component has its own specification (SpecReg, SpecElig, SpecTeam,  *)
(* SpecSub, SpecVote, SpecQuad, SpecJudge, SpecAuto, SpecML) over the      *)
(* shared variables.                                                       *)
(***************************************************************************)
EXTENDS Integers, Sequences, FiniteSets

\* ---------------------------------------------------------------- bounds
MaxTime == 2
MaxRegs == 2
MaxMembers == 3
MaxInvites == 2
MaxJudgeList == 2
MaxAssignments == 4
MaxCapacity == 2
MaxWaiting == 3
MaxRows == 3
MaxWeight == 3
MaxScoredRows == 2

\* ------------------------------------------------------------ identifiers
Users == {"u1", "u2"}
TeamIds == {"t1", "t2"}
CompetitionIds == {"c1", "c2"}
NoTeam == "None"

\* CompetitionType, CompetitionStatus
CompetitionType == {"individual", "team", "hybrid"}
CompetitionStatus == {"draft", "published", "active", "completed", "cancelled"}
\* participant_type values a caller may pass ('judge' stands for any other string)
ParticipantTypes == {"individual", "team", "judge"}

VARIABLES
    now,            \* datetime.utcnow()
    competition,    \* the Competition object "c1"
    registrations,  \* every Registration object constructed, in order
    teams,          \* Team objects by id
    invitations,    \* every TeamInvitation object constructed, in order
    submission,     \* the Submission object
    files_attached, \* storage: every required file category is attached
    round,          \* storage: the competition_rounds row of the submission
    pc,             \* position of each caller of submit()
    result,         \* what submit() gave each caller
    session,        \* the VotingSession object
    users,          \* User objects by id
    cast_votes,     \* voters whose cast_vote call has returned
    assignments,    \* every JudgeAssignment object constructed, in order
    workload,       \* storage: each judge's max_concurrent_reviews and open reviews
    waiting,        \* storage: number of submissions not yet assigned to a judge
    report,         \* what auto_assign_submissions returned last
    votes,          \* storage: the Vote records of the session
    df,             \* the DataFrame handed through the ML pipeline
    stage,          \* how far the pipeline has run on df
    lastResult      \* outcome of the operation that ran last

regState == <<competition, registrations>>
teamState == <<teams, invitations>>
subState == <<submission, files_attached, round, pc, result>>
voteState == <<session, users, cast_votes, votes>>
judgeState == <<assignments, workload, waiting, report>>
mlState == <<df, stage>>

vars == <<now, regState, teamState, subState, voteState, judgeState, mlState, lastResult>>

\* ------------------------------------------------------------- outcomes
NoArgs == [user |-> "", team |-> "", pid |-> "", ptype |-> "", cid |-> "", flag |-> FALSE, weights |-> <<>>]

Ok(op, args) ==
    [op |-> op, ok |-> TRUE, kind |-> "none", reason |-> "", args |-> args]

\* raise ValueError(reason)
RaiseValueError(op, reason, args) ==
    [op |-> op, ok |-> FALSE, kind |-> "ValueError", reason |-> reason, args |-> args]

Quiet(op) == Ok(op, NoArgs)

\* --------------------------------------------------------------- clock
Tick ==
    /\ now < MaxTime
    /\ now' = now + 1
    /\ lastResult' = Quiet("tick")
    /\ UNCHANGED <<regState, teamState, subState, voteState, judgeState, mlState>>

\* ---------------------------------------------------------- Competition
\* CompetitionService.create_competition: status draft, type and window from data
create_competition(type, rstart, rend) ==
    [id |-> "c1", type |-> type, status |-> "draft",
     registration_start |-> rstart, registration_end |-> rend]

\* Competition.is_registration_open
is_registration_open ==
    /\ competition.status = "published"
    /\ competition.registration_start <= now
    /\ now <= competition.registration_end

\* _validate_registration with the two mismatch reasons exchanged
_validate_registration_swapped(participant_id, participant_type) ==
    IF participant_type \notin {"individual", "team"}
    THEN <<FALSE, "Invalid participant type">>
    ELSE IF participant_type = "individual" /\ competition.type = "team"
    THEN <<FALSE, "Team registration not allowed for individual competition">>
    ELSE IF participant_type = "team" /\ competition.type = "individual"
    THEN <<FALSE, "Individual registration not allowed for team competition">>
    ELSE <<TRUE, "Registration valid">>

\* Competition._validate_registration: <<can_register, reason>>
_validate_registration(participant_id, participant_type) ==
    IF participant_type \notin {"individual", "team"}
    THEN <<FALSE, "Invalid participant type">>
    ELSE IF participant_type = "individual" /\ competition.type = "team"
    THEN <<FALSE, "Individual registration not allowed for team competition">>
    ELSE IF participant_type = "team" /\ competition.type = "individual"
    THEN <<FALSE, "Team registration not allowed for individual competition">>
    ELSE <<TRUE, "Registration valid">>

\* Registration(competition_id, participant_type, participant_id, ...)
Registration(competition_id, participant_type, participant_id) ==
    [competition_id |-> competition_id,
     participant_type |-> participant_type,
     participant_id |-> participant_id]

\* Competition.register_participant, as called with the outcome tagged op
register_participant(op, participant_id, participant_type, args) ==
    LET v == _validate_registration(participant_id, participant_type) IN
    IF ~v[1]
    THEN /\ lastResult' = RaiseValueError(op, v[2], args)
         /\ UNCHANGED registrations
    ELSE /\ registrations' = Append(registrations,
                Registration(competition.id, participant_type, participant_id))
         /\ lastResult' = Ok(op, args)

RegisterParticipant ==
    \E participant_id \in Users \cup TeamIds, participant_type \in ParticipantTypes :
        /\ Len(registrations) < MaxRegs
        /\ register_participant("register_participant", participant_id, participant_type,
              [NoArgs EXCEPT !.pid = participant_id, !.ptype = participant_type,
                             !.cid = competition.id])
        /\ UNCHANGED <<now, competition, teamState, subState, voteState, judgeState, mlState>>

\* Competition status moves forward only: draft -> published -> active ->
\* completed, cancelled from any non-terminal status.
NextStatus(s) ==
    CASE s = "draft" -> {"published", "cancelled"}
      [] s = "published" -> {"active", "cancelled"}
      [] s = "active" -> {"completed", "cancelled"}
      [] OTHER -> {}

AdvanceStatus ==
    \E s \in NextStatus(competition.status) :
        /\ competition' = [competition EXCEPT !.status = s]
        /\ lastResult' = Quiet("advance_status")
        /\ UNCHANGED <<now, registrations, teamState, subState, voteState, judgeState, mlState>>

\* ------------------------------------------------------------------ Team
\* Team.__init__
Team(captain_id, max_members) ==
    [captain_id |-> captain_id, max_members |-> max_members,
     current_member_count |-> 1, status |-> "forming"]

\* Competition.get_by_id / Team.get_by_id: lookup in the entity store
CompetitionExists(competition_id) == competition_id = competition.id
TeamExists(team_id) == team_id \in DOMAIN teams

\* CompetitionService.register_for_competition
RegisterForCompetition ==
    \E competition_id \in CompetitionIds, user \in Users, team_id \in TeamIds \cup {NoTeam} :
        LET op == "register_for_competition"
            args == [NoArgs EXCEPT !.user = user, !.team = team_id, !.cid = competition_id]
        IN
        /\ Len(registrations) < MaxRegs
        /\ IF ~CompetitionExists(competition_id)
           THEN /\ lastResult' = RaiseValueError(op, "Competition not found", args)
                /\ UNCHANGED registrations
           ELSE IF team_id # NoTeam
           THEN IF ~TeamExists(team_id)
                THEN /\ lastResult' = RaiseValueError(op, "Team not found", args)
                     /\ UNCHANGED registrations
                ELSE IF teams[team_id].captain_id # user
                THEN /\ lastResult' = RaiseValueError(op,
                            "Only team captain can register team", args)
                     /\ UNCHANGED registrations
                ELSE register_participant(op, team_id, "team",
                        [args EXCEPT !.pid = team_id, !.ptype = "team"])
           ELSE register_participant(op, user, "individual",
                    [args EXCEPT !.pid = user, !.ptype = "individual"])
        /\ UNCHANGED <<now, competition, teamState, subState, voteState, judgeState, mlState>>

\* --------------------------------------------------------- Team formation
\* can_add_member that takes a team for full only once it is over max_members
can_add_member_over(team) ==
    IF team.status # "forming"
    THEN <<FALSE, "Team is not accepting new members">>
    ELSE IF team.current_member_count > team.max_members
    THEN <<FALSE, "Team is full">>
    ELSE <<TRUE, "Can add member">>

\* Team.can_add_member: <<can_add, reason>>
can_add_member(team) ==
    IF team.status # "forming"
    THEN <<FALSE, "Team is not accepting new members">>
    ELSE IF team.current_member_count >= team.max_members
    THEN <<FALSE, "Team is full">>
    ELSE <<TRUE, "Can add member">>

\* status of a TeamInvitation that was just created
InitialInvitationStatus == "pending"

\* TeamInvitation(team_id, user_id, invited_by, type="invitation", message)
TeamInvitation(team_id, user_id, invited_by) ==
    [team_id |-> team_id, user_id |-> user_id, invited_by |-> invited_by,
     type |-> "invitation", status |-> InitialInvitationStatus]

\* Team(name, captain_id, max_members): any integer is taken as max_members
CreateTeam ==
    \E t \in TeamIds \ DOMAIN teams, captain_id \in Users, max_members \in 0..MaxMembers :
        /\ teams' = [x \in DOMAIN teams \cup {t} |->
                        IF x = t THEN Team(captain_id, max_members) ELSE teams[x]]
        /\ lastResult' = Ok("Team", [NoArgs EXCEPT !.team = t, !.user = captain_id])
        /\ UNCHANGED <<now, invitations, regState, subState, voteState, judgeState, mlState>>

\* Team.can_add_member called on its own
CanAddMember ==
    \E t \in DOMAIN teams :
        LET r == can_add_member(teams[t])
            args == [NoArgs EXCEPT !.team = t]
        IN
        /\ lastResult' = [Ok("can_add_member", args) EXCEPT !.ok = r[1], !.reason = r[2]]
        /\ UNCHANGED <<now, teamState, regState, subState, voteState, judgeState, mlState>>

\* Team.invite_member
InviteMember ==
    \E t \in DOMAIN teams, user_id \in Users, invited_by \in Users :
        LET r == can_add_member(teams[t])
            args == [NoArgs EXCEPT !.team = t, !.user = user_id]
        IN
        /\ Len(invitations) < MaxInvites
        /\ IF ~r[1]
           THEN /\ lastResult' = RaiseValueError("invite_member", r[2], args)
                /\ UNCHANGED invitations
           ELSE /\ invitations' = Append(invitations, TeamInvitation(t, user_id, invited_by))
                /\ lastResult' = Ok("invite_member", args)
        /\ UNCHANGED <<now, teams, regState, subState, voteState, judgeState, mlState>>

\* Acceptance of a pending invitation is done by the API layer under the same
\* capacity check; it is the only operation that changes the member count.
AcceptInvitation ==
    \E i \in DOMAIN invitations :
        LET inv == invitations[i] IN
        /\ inv.status = "pending"
        /\ can_add_member(teams[inv.team_id])[1]
        /\ invitations' = [invitations EXCEPT ![i].status = "accepted"]
        /\ teams' = [teams EXCEPT ![inv.team_id].current_member_count = @ + 1]
        /\ lastResult' = Ok("accept_invitation", [NoArgs EXCEPT !.team = inv.team_id])
        /\ UNCHANGED <<now, regState, subState, voteState, judgeState, mlState>>

\* Team status moves forward only: forming -> active (two members or more)
\* or forming -> disbanded.
TeamStatusChange ==
    \E t \in DOMAIN teams, s \in {"active", "disbanded"} :
        /\ teams[t].status = "forming"
        /\ s = "active" => teams[t].current_member_count >= 2
        /\ teams' = [teams EXCEPT ![t].status = s]
        /\ lastResult' = Ok("team_status", [NoArgs EXCEPT !.team = t])
        /\ UNCHANGED <<now, invitations, regState, subState, voteState, judgeState, mlState>>

\* ------------------------------------------------------------- Submission
Callers == {"a", "b"}

\* Submission.__init__: status draft; is_final is first assigned by submit()
Submission == [status |-> "draft", is_final |-> FALSE]

\* Submission.has_required_files: the count query is not evaluated
has_required_files == TRUE

\* Submission.get_round_info: the body is "pass", the caller gets None
NoRoundInfo == [found |-> FALSE, submission_deadline |-> 0]
get_round_info == NoRoundInfo

\* Submission.can_submit: <<can_submit, reason>>
can_submit ==
    LET round_info == get_round_info IN
    IF submission.status # "draft"
    THEN <<FALSE, "Submission already finalized">>
    ELSE IF ~has_required_files
    THEN <<FALSE, "Missing required files">>
    ELSE IF round_info.found /\ now > round_info.submission_deadline
    THEN <<FALSE, "Submission deadline has passed">>
    ELSE <<TRUE, "Can submit">>

\* Submission.submit, first half: can_submit() and the raise
SubmitCheck ==
    \E c \in Callers :
        LET r == can_submit IN
        /\ pc[c] = "idle"
        /\ IF ~r[1]
           THEN /\ pc' = [pc EXCEPT ![c] = "done"]
                /\ result' = [result EXCEPT ![c] = r[2]]
           ELSE /\ pc' = [pc EXCEPT ![c] = "checked"]
                /\ UNCHANGED result
        /\ lastResult' = Quiet("submit")
        /\ UNCHANGED <<now, submission, files_attached, round,
                       regState, teamState, voteState, judgeState, mlState>>

\* Submission.submit, second half: the assignments to status and is_final
SubmitWrite ==
    \E c \in Callers :
        /\ pc[c] = "checked"
        /\ submission' = [submission EXCEPT !.status = "submitted", !.is_final = TRUE]
        /\ pc' = [pc EXCEPT ![c] = "done"]
        /\ result' = [result EXCEPT ![c] = "ok"]
        /\ lastResult' = Quiet("submit")
        /\ UNCHANGED <<now, files_attached, round,
                       regState, teamState, voteState, judgeState, mlState>>

\* ---------------------------------------------------------- VotingSession
AccountStatus == {"active", "suspended", "banned", "pending"}
Tri == {"unset", "True", "False"}

\* User.__init__ with the two fields the checks read
User(account_status, email_verified) ==
    [account_status |-> account_status, email_verified |-> email_verified]

\* VotingSession.__init__ and the attributes assigned to it afterwards
VotingSession(requires_authentication, prevent_vote_changing, show_results_after_voting, start_time, end_time) ==
    [status |-> "draft",
     requires_authentication |-> requires_authentication,
     prevent_vote_changing |-> prevent_vote_changing,
     show_results_after_voting |-> show_results_after_voting,
     start_time |-> start_time, end_time |-> end_time]

\* VotingSession.is_active
is_active ==
    IF session.status # "active"
    THEN FALSE
    ELSE session.start_time <= now /\ now <= session.end_time

\* VotingSession.has_user_voted: the count query is not evaluated
has_user_voted(user_id) == FALSE

\* VotingSession.can_user_vote: <<can_vote, reason>>
can_user_vote(user_id) ==
    IF ~is_active
    THEN <<FALSE, "Voting session is not active">>
    ELSE IF session.requires_authentication /\ ~users[user_id].email_verified
    THEN <<FALSE, "Email verification required">>
    ELSE IF session.prevent_vote_changing = "True" /\ has_user_voted(user_id)
    THEN <<FALSE, "Already voted in this session">>
    ELSE <<TRUE, "Can vote">>

CanUserVote ==
    \E u \in Users :
        LET r == can_user_vote(u) IN
        /\ lastResult' = [Ok("can_user_vote", [NoArgs EXCEPT !.user = u])
                             EXCEPT !.ok = r[1], !.reason = r[2]]
        /\ UNCHANGED <<now, regState, teamState, subState, voteState, judgeState, mlState>>

\* VotingSession.cast_vote: the body is "pass"; the call returns
CastVote ==
    \E u \in Users :
        /\ u \notin cast_votes
        /\ cast_votes' = cast_votes \cup {u}
        /\ lastResult' = Ok("cast_vote", [NoArgs EXCEPT !.user = u])
        /\ UNCHANGED <<now, session, users, votes, regState, teamState, subState, judgeState, mlState>>

\* ------------------------------------------------------ eligibility checks
\* User.get_registration_for_competition: the query is composed but not run,
\* the body is "pass": no registration is ever returned (None)
get_registration_for_competition(user_id, competition_id) == {}

\* User.can_participate_in_competition: <<can_participate, reason>>
can_participate_in_competition(user_id) ==
    IF users[user_id].account_status # "active"
    THEN <<FALSE, "Account not active">>
    ELSE IF ~users[user_id].email_verified
    THEN <<FALSE, "Email not verified">>
    ELSE IF get_registration_for_competition(user_id, competition.id) # {}
    THEN <<FALSE, "Already registered for this competition">>
    ELSE <<TRUE, "Can participate">>

\* Competition.can_user_register: <<can_register, reason>>
can_user_register(user_id) ==
    IF ~is_registration_open
    THEN <<FALSE, "Registration is not open">>
    ELSE can_participate_in_competition(user_id)

CanParticipateInCompetition ==
    \E u \in Users :
        LET r == can_participate_in_competition(u) IN
        /\ lastResult' = [Ok("can_participate_in_competition", [NoArgs EXCEPT !.user = u])
                             EXCEPT !.ok = r[1], !.reason = r[2]]
        /\ UNCHANGED <<now, regState, teamState, subState, voteState, judgeState, mlState>>

CanUserRegister ==
    \E u \in Users :
        LET r == can_user_register(u) IN
        /\ lastResult' = [Ok("can_user_register", [NoArgs EXCEPT !.user = u])
                             EXCEPT !.ok = r[1], !.reason = r[2]]
        /\ UNCHANGED <<now, regState, teamState, subState, voteState, judgeState, mlState>>

\* a quadratic vote: option -> non-negative integer weight
Options == {"A", "B"}
QuadraticVotes == [Options -> 0..MaxWeight]

\* voter credit budget of the session
VoterCreditBudget == 10

\* VotingSession.cast_vote called with a quadratic vote: the body is "pass",
\* whatever the arguments; the call returns and no Vote is written
CastQuadraticVote ==
    \E u \in Users, weights \in QuadraticVotes :
        /\ cast_votes' = cast_votes \cup {u}
        /\ lastResult' = Ok("cast_vote", [NoArgs EXCEPT !.user = u, !.weights = weights])
        /\ UNCHANGED <<now, session, users, votes, regState, teamState, subState,
                       judgeState, mlState>>

\* VotingSession.get_results
get_results(include_real_time) ==
    LET args == [NoArgs EXCEPT !.flag = include_real_time] IN
    IF include_real_time
    THEN Ok("get_results", args)
    ELSE IF session.show_results_after_voting = "unset"
    THEN [Ok("get_results", args) EXCEPT !.ok = FALSE, !.kind = "AttributeError"]
    ELSE IF session.show_results_after_voting = "False"
    THEN [Ok("get_results", args) EXCEPT !.ok = FALSE, !.kind = "error",
                                         !.reason = "Results not available yet"]
    ELSE Ok("get_results", args)

GetResults ==
    \E include_real_time \in BOOLEAN :
        /\ lastResult' = get_results(include_real_time)
        /\ UNCHANGED <<now, regState, teamState, subState, voteState, judgeState, mlState>>

\* Session status moves forward only: draft -> active -> closed.
SessionStatusChange ==
    /\ session.status \in {"draft", "active"}
    /\ session' = [session EXCEPT !.status = IF @ = "draft" THEN "active" ELSE "closed"]
    /\ lastResult' = Quiet("session_status")
    /\ UNCHANGED <<now, users, cast_votes, votes, regState, teamState, subState, judgeState, mlState>>

\* --------------------------------------------------------- JudgingService
Judges == {"j1", "j2"}

\* JudgeAssignment(competition_id, judge_id, assignment_method)
JudgeAssignment(competition_id, judge_id, assignment_method) ==
    [competition_id |-> competition_id, judge_id |-> judge_id,
     assignment_method |-> assignment_method]

\* judge_ids lists of length 0..n
JudgeLists(n) == UNION {[1..k -> Judges] : k \in 0..n}

\* JudgingService.assign_judges_to_competition: the list it returns
assign_judges_to_competition(competition_id, judge_ids, assignment_method) ==
    [i \in 1..Len(judge_ids) |->
        JudgeAssignment(competition_id, judge_ids[i], assignment_method)]

AssignJudges ==
    \E competition_id \in CompetitionIds, judge_ids \in JudgeLists(MaxJudgeList) :
        /\ Len(assignments) + Len(judge_ids) <= MaxAssignments
        /\ assignments' = assignments \o
              assign_judges_to_competition(competition_id, judge_ids, "manual")
        /\ lastResult' = Ok("assign_judges_to_competition",
                            [NoArgs EXCEPT !.cid = competition_id])
        /\ UNCHANGED <<now, workload, waiting, report,
                       regState, teamState, subState, voteState, mlState>>

\* Judge row and the reviews that are not final
Judge(max_concurrent_reviews, current_reviews) ==
    [max_concurrent_reviews |-> max_concurrent_reviews,
     current_reviews |-> current_reviews]

\* no call of auto_assign_submissions yet
NoReport == [assignments_created |-> -1]

\* JudgingService.auto_assign_submissions: the workload query is composed
\* but not run; the call returns {"assignments_created": 0}
auto_assign_submissions(competition_id) == [assignments_created |-> 0]

AutoAssignSubmissions ==
    \E competition_id \in CompetitionIds :
        /\ report' = auto_assign_submissions(competition_id)
        /\ lastResult' = Ok("auto_assign_submissions",
                            [NoArgs EXCEPT !.cid = competition_id])
        /\ UNCHANGED <<now, assignments, workload, waiting,
                       regState, teamState, subState, voteState, mlState>>

\* ------------------------------------------------------ NestFestMLPipeline
\* columns of df that detect_anomalies reads; every row is one vote
Submissions == {"s1", "s2"}
Timestamps == {0, 3, 5, 10}
IPs == {"ip1", "ip2"}

VoteRows == [submission_id : Submissions, vote_timestamp : Timestamps, ip_address : IPs]

\* frames of 0..n rows
Frames(Rows, n) == UNION {[1..k -> Rows] : k \in 0..n}

\* NaN of a float column
NaN == [isnan |-> TRUE, seconds |-> 0]
Seconds(x) == [isnan |-> FALSE, seconds |-> x]

\* df.groupby('ip_address')['vote_type'].transform('count')
ip_vote_frequency(d, i) ==
    Cardinality({k \in DOMAIN d : d[k].ip_address = d[i].ip_address})

\* k-th smallest (k from 0) of the values f[1..n]
KthSmallest(f, k) ==
    CHOOSE x \in {f[i] : i \in DOMAIN f} :
        /\ Cardinality({i \in DOMAIN f : f[i] < x}) <= k
        /\ Cardinality({i \in DOMAIN f : f[i] <= x}) > k

\* Series.quantile(0.95), linear interpolation, times 100
QuantilePercent == 95
quantile_x100(f) ==
    LET pos == QuantilePercent * (Len(f) - 1)
        lo == pos \div 100
        frac == pos % 100
        a == KthSmallest(f, lo)
        b == IF frac = 0 THEN a ELSE KthSmallest(f, lo + 1)
    IN 100 * a + frac * (b - a)

\* np.where(df['ip_vote_frequency'] > quantile, 1, 0)
ip_anomaly_score(d, i) ==
    LET f == [k \in DOMAIN d |-> ip_vote_frequency(d, k)] IN
    IF 100 * f[i] > quantile_x100(f) THEN 1 ELSE 0

\* diff() over all rows, without the groupby
vote_time_diff_ungrouped(d, i) ==
    IF i = 1 THEN NaN
    ELSE Seconds(d[i].vote_timestamp - d[i - 1].vote_timestamp)

\* df.groupby('submission_id')['vote_timestamp'].diff().dt.total_seconds()
vote_time_diff(d, i) ==
    LET before == {k \in 1..(i - 1) : d[k].submission_id = d[i].submission_id} IN
    IF before = {} THEN NaN
    ELSE LET prev == CHOOSE k \in before : \A m \in before : m <= k
         IN Seconds(d[i].vote_timestamp - d[prev].vote_timestamp)

\* np.where(df['vote_time_diff'] < 5, 1, 0): a comparison with NaN is False
RapidVoteSeconds == 5
rapid_vote_anomaly(diff) ==
    IF ~diff.isnan /\ diff.seconds < RapidVoteSeconds THEN 1 ELSE 0

\* NestFestMLPipeline.detect_anomalies: df with the four new columns
detect_anomalies(d) ==
    [i \in DOMAIN d |->
        [submission_id |-> d[i].submission_id,
         vote_timestamp |-> d[i].vote_timestamp,
         ip_address |-> d[i].ip_address,
         ip_vote_frequency |-> ip_vote_frequency(d, i),
         ip_anomaly_score |-> ip_anomaly_score(d, i),
         vote_time_diff |-> vote_time_diff(d, i),
         rapid_vote_anomaly |-> rapid_vote_anomaly(vote_time_diff(d, i))]]

\* credibility 0 only when both scores are set
vote_credibility_both(r) ==
    IF r.ip_anomaly_score = 1 /\ r.rapid_vote_anomaly = 1 THEN 0 ELSE 1

\* np.where((ip_anomaly_score == 1) | (rapid_vote_anomaly == 1), 0, 1)
vote_credibility(r) ==
    IF r.ip_anomaly_score = 1 \/ r.rapid_vote_anomaly = 1 THEN 0 ELSE 1

\* NestFestMLPipeline.preprocess_for_model: df with the vote_credibility column
preprocess_for_model(d) ==
    [i \in DOMAIN d |->
        [submission_id |-> d[i].submission_id,
         vote_timestamp |-> d[i].vote_timestamp,
         ip_address |-> d[i].ip_address,
         ip_vote_frequency |-> d[i].ip_vote_frequency,
         ip_anomaly_score |-> d[i].ip_anomaly_score,
         vote_time_diff |-> d[i].vote_time_diff,
         rapid_vote_anomaly |-> d[i].rapid_vote_anomaly,
         vote_credibility |-> vote_credibility(d[i])]]

DetectAnomalies ==
    /\ stage = "loaded"
    /\ df' = detect_anomalies(df)
    /\ stage' = "anomalies"
    /\ lastResult' = Quiet("detect_anomalies")
    /\ UNCHANGED <<now, regState, teamState, subState, voteState, judgeState>>

PreprocessForModel ==
    /\ stage \in {"anomalies", "scored"}
    /\ df' = preprocess_for_model(df)
    /\ stage' = IF stage = "anomalies" THEN "preprocessed" ELSE "preprocessed_scored"
    /\ lastResult' = Quiet("preprocess_for_model")
    /\ UNCHANGED <<now, regState, teamState, subState, voteState, judgeState>>

\* --------------------------------------------------------- specifications
DefaultMaxMembers == 4

\* components at rest: constructed, nothing called yet
IdleReg ==
    /\ competition = create_competition("individual", 0, 0)
    /\ registrations = <<>>

NoTeams == [t \in {} |-> Team("u1", DefaultMaxMembers)]

IdleTeam ==
    /\ teams = NoTeams
    /\ invitations = <<>>

IdleSub ==
    /\ submission = Submission
    /\ files_attached = TRUE
    /\ round = [submission_deadline |-> 0]
    /\ pc = [c \in Callers |-> "idle"]
    /\ result = [c \in Callers |-> ""]

IdleVote ==
    /\ session = VotingSession(TRUE, "unset", "unset", 0, 0)
    /\ users = [u \in Users |-> User("active", FALSE)]
    /\ cast_votes = {}
    /\ votes = <<>>

IdleJudge ==
    /\ assignments = <<>>
    /\ workload = [j \in Judges |-> Judge(0, 0)]
    /\ waiting = 0
    /\ report = NoReport

IdleML ==
    /\ df = <<>>
    /\ stage = "none"

\* registration: one competition created from any type and window, team t1
\* of captain u1
InitReg ==
    /\ now = 0
    /\ \E type \in CompetitionType, rstart \in 0..MaxTime, rend \in 0..MaxTime :
          /\ rstart <= rend
          /\ competition = create_competition(type, rstart, rend)
    /\ registrations = <<>>
    /\ teams = [t \in {"t1"} |-> Team("u1", DefaultMaxMembers)]
    /\ invitations = <<>>
    /\ IdleSub /\ IdleVote /\ IdleJudge /\ IdleML
    /\ lastResult = Quiet("init")

NextReg ==
    \/ Tick
    \/ AdvanceStatus
    \/ RegisterParticipant
    \/ RegisterForCompetition

SpecReg == InitReg /\ [][NextReg]_vars

\* team formation
InitTeam ==
    /\ now = 0
    /\ IdleReg /\ IdleTeam /\ IdleSub /\ IdleVote /\ IdleJudge /\ IdleML
    /\ lastResult = Quiet("init")

NextTeam ==
    \/ CreateTeam
    \/ CanAddMember
    \/ InviteMember
    \/ AcceptInvitation
    \/ TeamStatusChange

SpecTeam == InitTeam /\ [][NextTeam]_vars

\* submission: one draft Submission, two callers of submit(); the files and
\* the round's deadline are whatever storage holds
InitSub ==
    /\ now = 0
    /\ submission = Submission
    /\ files_attached \in BOOLEAN
    /\ \E d \in 0..MaxTime : round = [submission_deadline |-> d]
    /\ pc = [c \in Callers |-> "idle"]
    /\ result = [c \in Callers |-> ""]
    /\ IdleReg /\ IdleTeam /\ IdleVote /\ IdleJudge /\ IdleML
    /\ lastResult = Quiet("init")

NextSub ==
    \/ Tick
    \/ SubmitCheck
    \/ SubmitWrite

SpecSub == InitSub /\ [][NextSub]_vars

\* voting: one session constructed and configured, users verified or not
InitVote ==
    /\ now = 0
    /\ \E ra \in BOOLEAN, pvc \in Tri, srv \in Tri, st \in 0..MaxTime, en \in 0..MaxTime :
          /\ st <= en
          /\ session = VotingSession(ra, pvc, srv, st, en)
    /\ \E verified \in SUBSET Users :
          users = [u \in Users |-> User("active", u \in verified)]
    /\ cast_votes = {}
    /\ votes = <<>>
    /\ IdleReg /\ IdleTeam /\ IdleSub /\ IdleJudge /\ IdleML
    /\ lastResult = Quiet("init")

NextVote ==
    \/ Tick
    \/ SessionStatusChange
    \/ CanUserVote
    \/ CastVote
    \/ GetResults

SpecVote == InitVote /\ [][NextVote]_vars

\* quadratic voting in a configured session
NextQuad ==
    \/ Tick
    \/ SessionStatusChange
    \/ CastQuadraticVote

SpecQuad == InitVote /\ [][NextQuad]_vars

\* eligibility: one competition, user u1 in any account state, no team
InitElig ==
    /\ now = 0
    /\ \E type \in CompetitionType, rstart \in 0..MaxTime, rend \in 0..MaxTime :
          /\ rstart <= rend
          /\ competition = create_competition(type, rstart, rend)
    /\ registrations = <<>>
    /\ session = VotingSession(TRUE, "unset", "unset", 0, 0)
    /\ \E account_status \in AccountStatus, email_verified \in BOOLEAN :
          users = [u \in Users |->
                      IF u = "u1" THEN User(account_status, email_verified)
                      ELSE User("active", TRUE)]
    /\ cast_votes = {}
    /\ votes = <<>>
    /\ IdleTeam /\ IdleSub /\ IdleJudge /\ IdleML
    /\ lastResult = Quiet("init")

NextElig ==
    \/ Tick
    \/ AdvanceStatus
    \/ RegisterForCompetition
    \/ CanParticipateInCompetition
    \/ CanUserRegister

SpecElig == InitElig /\ [][NextElig]_vars

\* judge assignment
InitJudge ==
    /\ now = 0
    /\ IdleReg /\ IdleTeam /\ IdleSub /\ IdleVote /\ IdleJudge /\ IdleML
    /\ lastResult = Quiet("init")

NextJudge == AssignJudges

SpecJudge == InitJudge /\ [][NextJudge]_vars

\* automatic assignment: judges with any capacity and open reviews within it,
\* some submissions waiting for a judge
InitAuto ==
    /\ now = 0
    /\ assignments = <<>>
    /\ \E maxr \in [Judges -> 0..MaxCapacity] :
          \E cur \in [Judges -> 0..MaxCapacity] :
             /\ \A j \in Judges : cur[j] <= maxr[j]
             /\ workload = [j \in Judges |-> Judge(maxr[j], cur[j])]
    /\ waiting \in 0..MaxWaiting
    /\ report = NoReport
    /\ IdleReg /\ IdleTeam /\ IdleSub /\ IdleVote /\ IdleML
    /\ lastResult = Quiet("init")

NextAuto == AutoAssignSubmissions

SpecAuto == InitAuto /\ [][NextAuto]_vars

\* ML pipeline: df is either a frame of votes as loaded, or a frame whose two
\* anomaly score columns were filled in by the caller
ScoredRow(r, ip_score, rapid_score) ==
    [submission_id |-> r.submission_id,
     vote_timestamp |-> r.vote_timestamp,
     ip_address |-> r.ip_address,
     ip_vote_frequency |-> 1,
     ip_anomaly_score |-> ip_score,
     vote_time_diff |-> NaN,
     rapid_vote_anomaly |-> rapid_score]

InitML ==
    /\ now = 0
    /\ \/ /\ stage = "loaded"
          /\ df \in Frames(VoteRows, MaxRows)
       \/ /\ stage = "scored"
          /\ \E d \in Frames(VoteRows, MaxScoredRows) :
                \E a \in [DOMAIN d -> {0, 1}], b \in [DOMAIN d -> {0, 1}] :
                    df = [i \in DOMAIN d |-> ScoredRow(d[i], a[i], b[i])]
    /\ IdleReg /\ IdleTeam /\ IdleSub /\ IdleVote /\ IdleJudge
    /\ lastResult = Quiet("init")

NextML ==
    \/ DetectAnomalies
    \/ PreprocessForModel

SpecML == InitML /\ [][NextML]_vars

\* ------------------------------------------------ registration properties
\* the step ran register_participant (directly or through the service)
RanRegisterParticipant(r) == r.args.ptype # ""

SamePair(a, b) ==
    /\ a.competition_id = b.competition_id
    /\ a.participant_type = b.participant_type
    /\ a.participant_id = b.participant_id

\* C1: at most one Registration exists for each (competition, participant)
\* pair, whatever sequence of register_participant and
\* register_for_competition calls has run.
C1_AtMostOneRegistration ==
    \A i, j \in DOMAIN registrations :
        SamePair(registrations[i], registrations[j]) => i = j

\* C4 as stated: a team participant in an individual-only competition fails
\* with "Individual registration not allowed for team competition", and an
\* individual participant in a team-only competition with the symmetric
\* reason.
C4_ReasonsAsStated ==
    RanRegisterParticipant(lastResult) =>
        /\ (lastResult.args.ptype = "team" /\ competition.type = "individual") =>
              (~lastResult.ok /\ lastResult.reason =
                  "Individual registration not allowed for team competition")
        /\ (lastResult.args.ptype = "individual" /\ competition.type = "team") =>
              (~lastResult.ok /\ lastResult.reason =
                  "Team registration not allowed for individual competition")

\* C4 amended: a team participant in an individual-only competition fails with
\* "Team registration not allowed for individual competition", an individual
\* participant in a team-only competition fails with "Individual registration
\* not allowed for team competition", a hybrid competition accepts either
\* participant type, and a failed call creates no Registration.
C4_TypeCompatibility ==
    [][RanRegisterParticipant(lastResult') =>
        /\ (lastResult'.args.ptype = "team" /\ competition.type = "individual") =>
              (~lastResult'.ok /\ lastResult'.reason =
                  "Team registration not allowed for individual competition")
        /\ (lastResult'.args.ptype = "individual" /\ competition.type = "team") =>
              (~lastResult'.ok /\ lastResult'.reason =
                  "Individual registration not allowed for team competition")
        /\ (lastResult'.args.ptype \in {"individual", "team"}
                /\ competition.type = "hybrid") => lastResult'.ok
        /\ ~lastResult'.ok => registrations' = registrations]_vars

\* a team participant has just been refused by an individual-only competition
C4_Witness ==
    /\ lastResult.op = "register_participant"
    /\ lastResult.args.ptype = "team"
    /\ competition.type = "individual"
    /\ ~lastResult.ok
    /\ lastResult.reason = "Team registration not allowed for individual competition"

\* C5: register_participant creates a Registration only while registration
\* is open (status published, now within the registration window); otherwise
\* it fails, with "Registration is not open" when nothing else is wrong, and
\* creates nothing.
C5_OnlyWhileOpen ==
    [][(RanRegisterParticipant(lastResult') /\ ~is_registration_open) =>
        /\ ~lastResult'.ok
        /\ registrations' = registrations
        /\ _validate_registration(lastResult'.args.pid, lastResult'.args.ptype)[1] =>
              lastResult'.reason = "Registration is not open"]_vars

\* the error kind register_participant raises for a validation failure
ValidationErrorKind ==
    RaiseValueError("register_participant", "Invalid participant type", NoArgs).kind

\* C6: register_for_competition with a team_id succeeds only for the team's
\* captain; a non-captain is refused with an error whose kind differs from
\* the kind of a validation error, and no Registration is created.
C6_CaptainOnly ==
    [][(/\ lastResult'.op = "register_for_competition"
        /\ CompetitionExists(lastResult'.args.cid)
        /\ lastResult'.args.team # NoTeam
        /\ TeamExists(lastResult'.args.team)
        /\ teams[lastResult'.args.team].captain_id # lastResult'.args.user) =>
            /\ ~lastResult'.ok
            /\ lastResult'.kind # ValidationErrorKind
            /\ registrations' = registrations]_vars

\* -------------------------------------------------- submission properties
\* C2: two callers run submit() concurrently on the same draft Submission;
\* once both have returned, exactly one has succeeded and the other has
\* failed with "Submission already finalized".
C2_ExactlyOneSubmitWins ==
    (\A c \in Callers : pc[c] = "done") =>
        \E w \in Callers :
            /\ result[w] = "ok"
            /\ \A l \in Callers \ {w} : result[l] = "Submission already finalized"

\* C7: submit() goes on to write status = submitted and is_final only when the
\* status is draft, the required files are attached and the deadline has not
\* passed; otherwise it fails with the reason of the first failed check and
\* leaves the submission as it was.
C7_SubmitGuards ==
    [][\A c \in Callers : (pc[c] = "idle" /\ pc'[c] # "idle") =>
        /\ pc'[c] = "checked" =>
              /\ submission.status = "draft"
              /\ files_attached
              /\ now <= round.submission_deadline
        /\ submission.status # "draft" =>
              (pc'[c] = "done" /\ result'[c] = "Submission already finalized")
        /\ (submission.status = "draft" /\ ~files_attached) =>
              (pc'[c] = "done" /\ result'[c] = "Missing required files")
        /\ (submission.status = "draft" /\ files_attached
                /\ now > round.submission_deadline) =>
              (pc'[c] = "done" /\ result'[c] = "Submission deadline has passed")
        /\ pc'[c] = "done" => submission' = submission]_vars

\* -------------------------------------------------------- team properties
\* C3: every Team has 1 <= current_member_count <= max_members in every
\* state from construction onward.
C3_MemberCountInRange ==
    \A t \in DOMAIN teams :
        /\ 1 <= teams[t].current_member_count
        /\ teams[t].current_member_count <= teams[t].max_members

\* ------------------------------------------------------ voting properties
\* C8: can_user_vote returns false when the session is not active or now is
\* outside [start_time, end_time], when authentication is required and the
\* email is unverified, and when prevent_vote_changing is set and the voter
\* has already cast a vote; in that last case, for a voter who is otherwise
\* eligible, the reason is "Already voted in this session".
C8_VoteEligibility ==
    lastResult.op = "can_user_vote" =>
        LET u == lastResult.args.user
            voted == session.prevent_vote_changing = "True" /\ u \in cast_votes
            unverified == session.requires_authentication /\ ~users[u].email_verified
        IN
        /\ ~is_active => ~lastResult.ok
        /\ unverified => ~lastResult.ok
        /\ voted => ~lastResult.ok
        /\ (voted /\ is_active /\ ~unverified) =>
              lastResult.reason = "Already voted in this session"

\* C9: while the session is not closed, get_results returns the error
\* "Results not available yet" unless include_real_time is requested or the
\* configuration permits result visibility; for a closed session it never
\* returns that error.
C9_ResultsAfterClose ==
    lastResult.op = "get_results" =>
        /\ (session.status # "closed" /\ ~lastResult.args.flag
                /\ session.show_results_after_voting = "False") =>
              (~lastResult.ok /\ lastResult.reason = "Results not available yet")
        /\ session.status = "closed" =>
              lastResult.reason # "Results not available yet"

\* ------------------------------------------------------- judge properties
\* C10: assigning the same judge to the same competition twice, in one
\* judge_ids list or in two calls, leaves exactly one JudgeAssignment for that
\* (competition, judge) pair, and no call raises.
C10_AssignmentIdempotent ==
    /\ \A i, j \in DOMAIN assignments :
          (/\ assignments[i].competition_id = assignments[j].competition_id
           /\ assignments[i].judge_id = assignments[j].judge_id) => i = j
    /\ lastResult.op = "assign_judges_to_competition" => lastResult.ok

\* ------------------------------------------- automatic assignment properties
RECURSIVE SumOver(_, _)
SumOver(S, f) ==
    IF S = {} THEN 0
    ELSE LET x == CHOOSE y \in S : TRUE IN f[x] + SumOver(S \ {x}, f)

Min(a, b) == IF a <= b THEN a ELSE b

\* the number of unassigned submissions a report states
ReportedUnassigned(r) == IF "unassigned" \in DOMAIN r THEN r.unassigned ELSE 0

\* C11: auto_assign_submissions gives nothing to a judge without available
\* capacity, never lifts open reviews above max_concurrent_reviews, assigns
\* as many waiting submissions as the judges' capacity allows (J1 with
\* capacity 2, J2 with capacity 0, 3 submissions: J1 gets 2) and reports the
\* number it could not assign.
C11_AutoAssignWithinCapacity ==
    [][lastResult'.op = "auto_assign_submissions" =>
        LET capacity == [j \in Judges |->
                workload[j].max_concurrent_reviews - workload[j].current_reviews]
            received == [j \in Judges |->
                workload'[j].current_reviews - workload[j].current_reviews]
            assigned == SumOver(Judges, received)
        IN
        /\ \A j \in Judges :
              /\ capacity[j] <= 0 => received[j] = 0
              /\ received[j] >= 0
              /\ workload'[j].current_reviews <= workload'[j].max_concurrent_reviews
        /\ assigned = Min(waiting, SumOver(Judges, capacity))
        /\ ReportedUnassigned(report') = waiting - assigned]_vars

\* ---------------------------------------------------- ML pipeline properties
SameSubmission(i, j) == df[i].submission_id = df[j].submission_id

\* j is the next row of i's submission after row i
NextOfSubmission(i, j) ==
    /\ i < j
    /\ SameSubmission(i, j)
    /\ \A k \in (i + 1)..(j - 1) : ~SameSubmission(i, k)

\* rows i < j are the only two votes of their submission
OnlyTwoVotes(i, j) ==
    /\ NextOfSubmission(i, j)
    /\ \A k \in DOMAIN df : SameSubmission(i, k) => k \in {i, j}

Abs(x) == IF x < 0 THEN -x ELSE x

\* the rows of submission s, in frame order
RowsOf(d, s) == SelectSeq(d, LAMBDA r : r.submission_id = s)

\* rapid_vote_anomaly of the rows of d, in frame order
RapidFlags(d) == [i \in DOMAIN d |-> d[i].rapid_vote_anomaly]

VoteOf(r) ==
    [submission_id |-> r.submission_id,
     vote_timestamp |-> r.vote_timestamp,
     ip_address |-> r.ip_address]

\* raw tally: number of votes of submission s in frame d
Tally(d, s) == Cardinality({i \in DOMAIN d : d[i].submission_id = s})

\* C16: detect_anomalies and preprocess_for_model remove no vote record and
\* change no vote count, and preprocess_for_model gives a vote credibility 0
\* exactly when its ip_anomaly_score or its rapid_vote_anomaly is 1, else 1.
C16_ScoringIsAdvisory ==
    [][stage' # stage =>
        /\ Len(df') = Len(df)
        /\ \A i \in DOMAIN df : VoteOf(df'[i]) = VoteOf(df[i])
        /\ \A s \in Submissions : Tally(df', s) = Tally(df, s)
        /\ stage' \in {"preprocessed", "preprocessed_scored"} =>
              \A i \in DOMAIN df :
                 /\ df'[i].ip_anomaly_score = df[i].ip_anomaly_score
                 /\ df'[i].rapid_vote_anomaly = df[i].rapid_vote_anomaly
                 /\ df'[i].vote_credibility \in {0, 1}
                 /\ df'[i].vote_credibility = 0 <=>
                       (df[i].ip_anomaly_score = 1 \/ df[i].rapid_vote_anomaly = 1)]_vars

\* the whole pipeline has run on a frame with a flagged vote: the vote is
\* still there with credibility 0, next to an unflagged vote with credibility 1
C16_Witness ==
    /\ stage = "preprocessed"
    /\ Len(df) = MaxRows
    /\ \E i, j \in DOMAIN df :
          /\ df[i].rapid_vote_anomaly = 1
          /\ df[i].vote_credibility = 0
          /\ df[j].rapid_vote_anomaly = 0
          /\ df[j].ip_anomaly_score = 0
          /\ df[j].vote_credibility = 1

\* ------------------------------------------------ quadratic voting properties
\* cost of a quadratic vote: sum over options of weight squared
QuadraticCost(w) == SumOver(Options, [o \in Options |-> w[o] * w[o]])

\* C13: a quadratic vote is recorded only if its cost is within the voter
\* credit budget: over budget ({A:3,B:2}, cost 13, budget 10) it is rejected
\* and the recorded votes are unchanged; within budget ({A:2,B:1}, cost 5) a
\* vote of an eligible voter is recorded.
C13_QuadraticBudget ==
    [][lastResult'.op = "cast_vote" =>
        LET cost == QuadraticCost(lastResult'.args.weights) IN
        /\ cost > VoterCreditBudget => (~lastResult'.ok /\ votes' = votes)
        /\ votes' # votes => cost <= VoterCreditBudget
        /\ (cost <= VoterCreditBudget /\ can_user_vote(lastResult'.args.user)[1]) =>
              (lastResult'.ok /\ Len(votes') = Len(votes) + 1)]_vars

\* ---------------------------------------------------- eligibility properties
\* user u has an individual Registration for the competition
IsRegistered(u) ==
    \E i \in DOMAIN registrations :
        registrations[i] = Registration(competition.id, "individual", u)

\* C14: can_user_register returns true only if registration is open, the
\* account is active, the email is verified and the user has no Registration
\* for the competition; for a registered user (active, verified)
\* can_participate_in_competition returns (false, "Already registered for
\* this competition"); neither check changes the user or the competition.
C14_CanUserRegister ==
    [][lastResult'.op \in {"can_user_register", "can_participate_in_competition"} =>
        LET u == lastResult'.args.user
            eligible == users[u].account_status = "active" /\ users[u].email_verified
        IN
        /\ (lastResult'.op = "can_user_register" /\ lastResult'.ok) =>
              (is_registration_open /\ eligible /\ ~IsRegistered(u))
        /\ (lastResult'.op = "can_participate_in_competition"
                /\ eligible /\ IsRegistered(u)) =>
              /\ ~lastResult'.ok
              /\ lastResult'.reason = "Already registered for this competition"
        /\ users' = users
        /\ competition' = competition
        /\ registrations' = registrations]_vars

\* ------------------------------------------------- team invitation properties
\* C15: invite_member fails with "Team is not accepting new members" on a
\* team that is not forming and with "Team is full" on a forming team whose
\* current_member_count has reached max_members, creating no invitation;
\* otherwise it creates exactly one TeamInvitation, pending, and the team's
\* current_member_count, max_members, status and captain_id stay as they were.
C15_InviteMember ==
    [][lastResult'.op = "invite_member" =>
        LET t == lastResult'.args.team
            full == teams[t].current_member_count >= teams[t].max_members
            n == Len(invitations)
        IN
        /\ teams[t].status # "forming" =>
              /\ ~lastResult'.ok
              /\ lastResult'.reason = "Team is not accepting new members"
              /\ invitations' = invitations
        /\ (teams[t].status = "forming" /\ full) =>
              /\ ~lastResult'.ok
              /\ lastResult'.reason = "Team is full"
              /\ invitations' = invitations
        /\ (teams[t].status = "forming" /\ ~full) =>
              /\ lastResult'.ok
              /\ Len(invitations') = n + 1
              /\ SubSeq(invitations', 1, n) = invitations
              /\ invitations'[n + 1].team_id = t
              /\ invitations'[n + 1].user_id = lastResult'.args.user
              /\ invitations'[n + 1].status = "pending"
        /\ teams' = teams]_vars

\* an invitation has just been created for a forming team with room
C15_Witness ==
    /\ lastResult.op = "invite_member"
    /\ lastResult.ok
    /\ invitations # <<>>
    /\ invitations[Len(invitations)].status = "pending"
    /\ invitations[Len(invitations)].team_id = lastResult.args.team
    /\ teams[lastResult.args.team].status = "forming"
    /\ teams[lastResult.args.team].current_member_count
          < teams[lastResult.args.team].max_members

====
